---- MODULE Spec2Model ----
(***************************************************************************)
(* Verification model of the challenge portfolio: extractStrings,          *)
(* subsequence_indices, fibonacciOrder, squareDifferenceFree and           *)
(* splitOnNewChars.                                                        *)
(*                                                                         *)
(* Every challenge is an independent pure function or generator.  Each is  *)
(* modelled as its own state machine over its own variables; the variables *)
(* of the challenges that a specification does not run stay at their idle  *)
(* values.  A string is a sequence of one-character strings, a JavaScript  *)
(* array index i is the TLA+ sequence index i + 1.                         *)
(***************************************************************************)
EXTENDS Integers, Sequences, FiniteSets, TLC

VARIABLES
    \* extractStrings
    text,              \* the parameter `text` (reassigned with the sentinel)
    charIndex,         \* number of characters of `text` the for-of loop has consumed
    state,             \* the parse state (type State)
    extractedStrings,  \* the list of completed strings
    extractPc,         \* "idle" | "start" | "loop" | "returned" | "threw"
    expected,          \* the strings a generated text was built from (test oracle)
    extractResult,     \* what the caller receives: the returned list, nothing before
                       \* the return and nothing at all from a call that throws
    \* subsequence_indices
    arr, sub, indices, arrIndex, subIndex,
    subPc,             \* "idle" | "loop" | "returned" | "null"
    \* fibonacciOrder
    fibArr, slices, expandingSlice, fibIndex, fibResult,
    fibPc,             \* "idle" | "validate" | "loop" | "returned" | "threw"
    \* squareDifferenceFree
    destToDistances,   \* the Map: a function from its keys to lists of distances
    dest,              \* the loop variable `dest`
    distIndex,         \* number of distances of this dest the inner loop has consumed
    yielded,           \* the values yielded so far, in order
    sdfVersion,        \* "class" | "interface": which of the two sources runs
    sdfPc,             \* "idle" | "check" | "suspended" | "distances" | "assertFailed"
    \* splitOnNewChars
    str,               \* the parameter `str`
    strIndex,          \* number of characters of `str` the for-of loop has consumed
    splitArr,          \* the list `arr` of substrings
    encounteredChars,  \* the Set of characters met so far
    splitPc            \* "idle" | "loop" | "returned"

extractVars == <<text, charIndex, state, extractedStrings, extractPc, expected,
                 extractResult>>
subVars     == <<arr, sub, indices, arrIndex, subIndex, subPc>>
fibVars     == <<fibArr, slices, expandingSlice, fibIndex, fibResult, fibPc>>
sdfVars     == <<destToDistances, dest, distIndex, yielded, sdfVersion, sdfPc>>
splitVars   == <<str, strIndex, splitArr, encounteredChars, splitPc>>
vars        == <<extractVars, subVars, fibVars, sdfVars, splitVars>>

(***************************************************************************)
(* Generic helpers.                                                        *)
(***************************************************************************)
\* All sequences over S of length at most n.
SeqsUpTo(S, n) == UNION {[1..k -> S] : k \in 0..n}

RECURSIVE Concat(_)
\* Array.prototype.join('') on a list of strings: their concatenation in order.
Concat(ss) == IF ss = <<>> THEN <<>> ELSE Head(ss) \o Concat(Tail(ss))

\* Number of occurrences of the character c in the string s.
CountChar(s, c) == Cardinality({i \in 1..Len(s) : s[i] = c})

NoValue == "none"

(***************************************************************************)
(* Idle values of the challenges a specification does not run.             *)
(***************************************************************************)
ExtractIdle ==
    /\ text = <<>> /\ charIndex = 0 /\ state = [type |-> "outside"]
    /\ extractedStrings = <<>> /\ extractPc = "idle" /\ expected = NoValue
    /\ extractResult = NoValue

SubIdle ==
    /\ arr = <<>> /\ sub = <<>> /\ indices = <<>> /\ arrIndex = 0 /\ subIndex = 0
    /\ subPc = "idle"

FibIdle ==
    /\ fibArr = <<>> /\ slices = <<>> /\ expandingSlice = NoValue /\ fibIndex = 0
    /\ fibResult = NoValue /\ fibPc = "idle"

SdfIdle ==
    /\ destToDistances = <<>> /\ dest = 0 /\ distIndex = 0 /\ yielded = <<>>
    /\ sdfVersion = NoValue /\ sdfPc = "idle"

SplitIdle ==
    /\ str = <<>> /\ strIndex = 0 /\ splitArr = <<>> /\ encounteredChars = {}
    /\ splitPc = "idle"

(***************************************************************************)
(* extractStrings  (typescript-challenges/code/extract-strings.ts)         *)
(***************************************************************************)
SingleQuote == "'"
DoubleQuote == "\""
\* Variant: the appended character is the one the delimiter test accepts.
Sentinel_Delimiter == "\""
\* text + '*'
Sentinel == "*"

\* Longest enumerated input text.
MaxTextLen == 6
\* Characters of the enumerated input texts.
TextChars == {SingleQuote, DoubleQuote, "a", Sentinel}

\* The inputs of the test 'throws for input with an unmatched single quote'.
UnmatchedTexts ==
    { <<"'">>,
      <<"'", "a", "b", "c">>,
      <<"a", "b", "c", "'">>,
      <<"a", "'", "b", "'", "c", "'", "d">>,
      <<"'", "'", "'", "a", "b", "c", "'", "'", "'", "d", "e", "f", "'", "'", "'">> }

\* Further texts that the problem statement and the specification name.
NamedTexts ==
    { <<"a", "b", "'", "c", "d", "'", "e", "f", "'", "g", "h", "'", "i", "j">>,
      <<"a", "b", "'", "c", "d", "'", "'", "e", "f", "'", "'", "g", "h", "'", "i", "j">>,
      <<"'", "a", "'", "'", "b", "'">>,
      <<"h", "e", "l", "l", "o", " ", "w", "o", "r", "l", "d">> }

ExtractInputs == SeqsUpTo(TextChars, MaxTextLen) \cup UnmatchedTexts \cup NamedTexts

\* const isSingleQuote = char=='"';
isSingleQuote(char) == char = DoubleQuote

\* state.parsed.join('') -- the characters of the array as one string.
join(parsed) == [i \in 1..Len(parsed) |-> parsed[i]]

\* Variant: the completed string is put in front of the list.
push_InFront(list, string) == <<string>> \o list

\* extractedStrings.push(...)
push(list, string) == Append(list, string)

\* text = text + '*'; const extractedStrings = []; let state = { type: 'outside' };
ExtractStart ==
    /\ extractPc = "start"
    /\ text' = text \o <<Sentinel>>
    /\ extractedStrings' = <<>>
    /\ state' = [type |-> "outside"]
    /\ charIndex' = 0
    /\ extractPc' = "loop"
    /\ UNCHANGED <<expected, extractResult, subVars, fibVars, sdfVars, splitVars>>

\* One iteration of `for (const char of text)`: the switch on state.type.
ExtractChar ==
    /\ extractPc = "loop"
    /\ charIndex < Len(text)
    /\ LET char == text[charIndex + 1] IN
        \/ /\ state.type = "outside"
           /\ isSingleQuote(char)
           /\ state' = [type |-> "inside", parsed |-> <<>>]
           /\ UNCHANGED extractedStrings
        \/ /\ state.type = "outside"
           /\ ~isSingleQuote(char)
           /\ UNCHANGED <<state, extractedStrings>>
        \/ /\ state.type = "inside"
           /\ isSingleQuote(char)
           /\ state' = [type |-> "transition", parsed |-> state.parsed]
           /\ UNCHANGED extractedStrings
        \/ /\ state.type = "inside"
           /\ ~isSingleQuote(char)
           /\ state' = [type |-> "inside", parsed |-> Append(state.parsed, char)]
           /\ UNCHANGED extractedStrings
        \/ /\ state.type = "transition"
           /\ isSingleQuote(char)
           /\ state' = [type |-> "inside", parsed |-> Append(state.parsed, SingleQuote)]
           /\ UNCHANGED extractedStrings
        \/ /\ state.type = "transition"
           /\ ~isSingleQuote(char)
           /\ extractedStrings' = push(extractedStrings, join(state.parsed))
           /\ state' = [type |-> "outside"]
    /\ charIndex' = charIndex + 1
    /\ UNCHANGED <<text, extractPc, expected, extractResult, subVars, fibVars, sdfVars, splitVars>>

\* if (state.type !== 'outside') throw new Error('Unmatched single quote');
ExtractThrow ==
    /\ extractPc = "loop"
    /\ charIndex = Len(text)
    /\ state.type # "outside"
    /\ extractPc' = "threw"
    /\ UNCHANGED <<text, charIndex, state, extractedStrings, expected, extractResult,
                   subVars, fibVars, sdfVars, splitVars>>

\* Variant: the list is returned whatever the final state is.
ExtractReturn_Unchecked ==
    /\ extractPc = "loop"
    /\ charIndex = Len(text)
    /\ extractPc' = "returned"
    /\ extractResult' = extractedStrings
    /\ UNCHANGED <<text, charIndex, state, extractedStrings, expected,
                   subVars, fibVars, sdfVars, splitVars>>

\* return extractedStrings;
ExtractReturn ==
    /\ extractPc = "loop"
    /\ charIndex = Len(text)
    /\ state.type = "outside"
    /\ extractPc' = "returned"
    /\ extractResult' = extractedStrings
    /\ UNCHANGED <<text, charIndex, state, extractedStrings, expected,
                   subVars, fibVars, sdfVars, splitVars>>

ExtractNext == ExtractStart \/ ExtractChar \/ ExtractThrow \/ ExtractReturn

\* The argument the call was made with (the text without the sentinel).
inputText == IF extractPc = "start" THEN text ELSE SubSeq(text, 1, Len(text) - 1)

ExtractInit ==
    /\ text \in ExtractInputs
    /\ charIndex = 0
    /\ state = [type |-> "outside"]
    /\ extractedStrings = <<>>
    /\ extractPc = "start"
    /\ expected = NoValue
    /\ extractResult = NoValue
    /\ SubIdle /\ FibIdle /\ SdfIdle /\ SplitIdle

SpecExtract == ExtractInit /\ [][ExtractNext]_vars

(***************************************************************************)
(* The input-output pairs of the test 'generated input-output pairs'       *)
(* (extract-strings.test.ts).                                              *)
(***************************************************************************)
\* Most strings a generated text is built from.
MaxStrings == 2
\* Longest string to be extracted.
MaxStringLen == 2
\* Longest non-string portion.
MaxPortionLen == 1

\* fc.stringOf(fc.char().filter((c) => c !== "'"))
nonStringPortion == SeqsUpTo({"a", DoubleQuote}, MaxPortionLen)

\* fc.stringOf(fc.oneof(fc.constant("'"), fc.char()))
extractedString == SeqsUpTo({SingleQuote, "a", DoubleQuote}, MaxStringLen)

\* repr(s): every single quote doubled, the whole wrapped in single quotes.
repr(s) ==
    <<SingleQuote>>
    \o Concat([i \in 1..Len(s) |->
                  IF s[i] = SingleQuote THEN <<SingleQuote, SingleQuote>> ELSE <<s[i]>>])
    \o <<SingleQuote>>

\* [...roundrobin(nonStringPortions, extractedStrings.map(repr))].join('')
\* where nonStringPortions has one element more than strings.
interleavedText(nonStringPortions, strings) ==
    Concat([i \in 1..(2 * Len(strings) + 1) |->
               IF i % 2 = 1 THEN nonStringPortions[(i + 1) \div 2]
                            ELSE repr(strings[i \div 2])])

\* The filter of textAndExtractedStrings: only the first and the last
\* non-string portion may be empty.
portionsSeparate(nonStringPortions, n) ==
    \A i \in 1..(n + 1) : i = 1 \/ i = n + 1 \/ Len(nonStringPortions[i]) > 0

RoundTripInit ==
    /\ \E strings \in SeqsUpTo(extractedString, MaxStrings) :
         \E nonStringPortions \in [1..(Len(strings) + 1) -> nonStringPortion] :
            /\ portionsSeparate(nonStringPortions, Len(strings))
            /\ text = interleavedText(nonStringPortions, strings)
            /\ expected = strings
    /\ charIndex = 0
    /\ state = [type |-> "outside"]
    /\ extractedStrings = <<>>
    /\ extractPc = "start"
    /\ extractResult = NoValue
    /\ SubIdle /\ FibIdle /\ SdfIdle /\ SplitIdle

SpecRoundTrip == RoundTripInit /\ [][ExtractNext]_vars

(***************************************************************************)
(* Claims about extractStrings.                                            *)
(***************************************************************************)
ExtractDone == extractPc \in {"returned", "threw"}

\* C1: a text built from a list of strings S (quotes doubled, each string
\* wrapped in single quotes, separated by quote-free portions that are
\* non-empty except the first and the last) extracts to exactly S.
C1_RoundTrip ==
    ExtractDone => (extractPc = "returned" /\ extractedStrings = expected)

\* C2: the call throws on every text that holds an odd number of single
\* quotes, the five texts of the unit test included.
C2_ThrowsOnOddQuoteCount ==
    (ExtractDone /\ CountChar(inputText, SingleQuote) % 2 = 1) => extractPc = "threw"

\* C3: the call returns (does not throw) on every text that holds an even
\* number of single quotes.
C3_ReturnsOnEvenQuoteCount ==
    (ExtractDone /\ CountChar(inputText, SingleQuote) % 2 = 0) => extractPc = "returned"

\* C4: the text 'a''b' extracts to the single string a'b.
C4_AdjacentLiteralsMerge ==
    (ExtractDone /\ inputText = <<"'", "a", "'", "'", "b", "'">>)
        => (extractPc = "returned" /\ extractedStrings = << <<"a", "'", "b">> >>)

\* C5: on a text without any single quote the state is outside after every
\* character and the call returns the empty list.
C5_NoQuotesNoStrings ==
    (extractPc # "idle" /\ CountChar(inputText, SingleQuote) = 0)
        => (state.type = "outside" /\ extractedStrings = <<>> /\ extractPc # "threw")

(***************************************************************************)
(* subsequence_indices  (typescript-challenges/code/subsequence-indices.ts)*)
(***************************************************************************)
\* Longest list `arr`.
MaxArrLen == 5
\* Longest list `sub`.
MaxSubLen == 3
\* fc.constantFrom('a', 'b'): the elements of the generated lists.
ListElems == {"a", "b"}

\* function reachedEndOfList(arr, index): index === arr.length
reachedEndOfList(list, index) == index = Len(list)

\* arr[arrIndex] === sub[subIndex]
elementsMatch == arr[arrIndex + 1] = sub[subIndex + 1]

\* if (reachedEndOfList(sub, subIndex)) return indices;
SubReturn ==
    /\ subPc = "loop"
    /\ reachedEndOfList(sub, subIndex)
    /\ subPc' = "returned"
    /\ UNCHANGED <<arr, sub, indices, arrIndex, subIndex, extractVars, fibVars, sdfVars, splitVars>>

\* Variant: the end of arr is tested before the end of sub.
SubReturnNull_TestedFirst ==
    /\ subPc = "loop"
    /\ reachedEndOfList(arr, arrIndex)
    /\ subPc' = "null"
    /\ UNCHANGED <<arr, sub, indices, arrIndex, subIndex, extractVars, fibVars, sdfVars, splitVars>>

\* if (reachedEndOfList(arr, arrIndex)) return null;
SubReturnNull ==
    /\ subPc = "loop"
    /\ ~reachedEndOfList(sub, subIndex)
    /\ reachedEndOfList(arr, arrIndex)
    /\ subPc' = "null"
    /\ UNCHANGED <<arr, sub, indices, arrIndex, subIndex, extractVars, fibVars, sdfVars, splitVars>>

\* Variant: the index is pushed after arrIndex has been incremented.
SubMatch_PushAfterIncrement ==
    /\ subPc = "loop"
    /\ ~reachedEndOfList(sub, subIndex)
    /\ ~reachedEndOfList(arr, arrIndex)
    /\ elementsMatch
    /\ indices' = Append(indices, arrIndex + 1)
    /\ arrIndex' = arrIndex + 1
    /\ subIndex' = subIndex + 1
    /\ UNCHANGED <<arr, sub, subPc, extractVars, fibVars, sdfVars, splitVars>>

\* if (arr[arrIndex] === sub[subIndex]) { indices.push(arrIndex); arrIndex++; subIndex++; }
SubMatch ==
    /\ subPc = "loop"
    /\ ~reachedEndOfList(sub, subIndex)
    /\ ~reachedEndOfList(arr, arrIndex)
    /\ elementsMatch
    /\ indices' = Append(indices, arrIndex)
    /\ arrIndex' = arrIndex + 1
    /\ subIndex' = subIndex + 1
    /\ UNCHANGED <<arr, sub, subPc, extractVars, fibVars, sdfVars, splitVars>>

\* Variant: an element of arr may be passed over although it matches.
SubSkip_AlsoOnMatch ==
    /\ subPc = "loop"
    /\ ~reachedEndOfList(sub, subIndex)
    /\ ~reachedEndOfList(arr, arrIndex)
    /\ arrIndex' = arrIndex + 1
    /\ UNCHANGED <<arr, sub, indices, subIndex, subPc, extractVars, fibVars, sdfVars, splitVars>>

\* else { arrIndex++; }
SubSkip ==
    /\ subPc = "loop"
    /\ ~reachedEndOfList(sub, subIndex)
    /\ ~reachedEndOfList(arr, arrIndex)
    /\ ~elementsMatch
    /\ arrIndex' = arrIndex + 1
    /\ UNCHANGED <<arr, sub, indices, subIndex, subPc, extractVars, fibVars, sdfVars, splitVars>>

SubNext == SubReturn \/ SubReturnNull \/ SubMatch \/ SubSkip

\* const indices = []; let arrIndex = 0; let subIndex = 0;
SubInit ==
    /\ arr \in SeqsUpTo(ListElems, MaxArrLen)
    /\ sub \in SeqsUpTo(ListElems, MaxSubLen)
    /\ indices = <<>>
    /\ arrIndex = 0
    /\ subIndex = 0
    /\ subPc = "loop"
    /\ ExtractIdle /\ FibIdle /\ SdfIdle /\ SplitIdle

SpecSub == SubInit /\ [][SubNext]_vars

(***************************************************************************)
(* Claims about subsequence_indices.                                       *)
(***************************************************************************)
\* The elements of list at the positions of the index set keep, in order.
RECURSIVE SelectAt(_, _, _)
SelectAt(list, keep, i) ==
    IF i > Len(list) THEN <<>>
    ELSE (IF i \in keep THEN <<list[i]>> ELSE <<>>) \o SelectAt(list, keep, i + 1)

\* s is list with zero or more elements deleted.
IsSubsequence(s, list) ==
    \E keep \in SUBSET (1..Len(list)) : SelectAt(list, keep, 1) = s

\* C6: a returned list of indices is strictly ascending, holds only valid
\* indices of arr, is as long as sub, and arr at its j-th index is sub[j].
C6_ReturnedIndicesValid ==
    subPc = "returned" =>
        /\ Len(indices) = Len(sub)
        /\ \A j \in 1..Len(indices) : indices[j] \in 0..(Len(arr) - 1)
        /\ \A j \in 1..(Len(indices) - 1) : indices[j] < indices[j + 1]
        /\ \A j \in 1..Len(indices) :
              indices[j] \in 0..(Len(arr) - 1) => arr[indices[j] + 1] = sub[j]

\* A call returned a list of at least two indices, skipping over elements.
C6_Witness ==
    /\ subPc = "returned"
    /\ Len(indices) >= 2
    /\ indices[Len(indices)] > Len(indices)

\* C7: the call returns null only if sub is not a subsequence of arr.
C7_NullOnlyForNonSubsequence ==
    subPc = "null" => ~IsSubsequence(sub, arr)

\* A call returned null after it had matched a first part of sub, on lists
\* where sub is no longer than arr.
C7_Witness ==
    /\ subPc = "null"
    /\ Len(indices) >= 1
    /\ Len(sub) <= Len(arr)

\* Calls on proper subsequences that need skipping return a list.
C7_WitnessReturned ==
    /\ subPc = "returned"
    /\ IsSubsequence(sub, arr)
    /\ Len(sub) >= 2
    /\ Len(sub) < Len(arr)
    /\ arr[1] # sub[1]

(***************************************************************************)
(* fibonacciOrder  (typescript-challenges/code/fibonacci-order.ts)         *)
(***************************************************************************)
\* Longest enumerated input list.
MaxFibLen == 5
\* The enumerated input lists hold elements from -MaxFibNeg to MaxFibVal.
MaxFibNeg == 1
MaxFibVal == 3
\* nBonacciLikeList: longest seed, largest seed element, most additional elements.
MaxSeedLen == 3
MaxSeedVal == 2
MaxAdditional == 4

\* Sum of the elements of list at the JavaScript indices from..(to - 1).
RECURSIVE SumRange(_, _, _)
SumRange(list, from, to) ==
    IF from >= to THEN 0 ELSE list[from + 1] + SumRange(list, from + 1, to)

\* sumOfPreviousNElements(arr, index, n)  (fibonacci-order.test.ts)
sumOfPreviousNElements(list, index, n) == SumRange(list, index - n, index)

\* nBonacciLikeList: the seed followed by numAdditionalElements elements, each
\* the sum of the n = seed.length elements before it.
RECURSIVE nBonacciLikeList(_, _, _)
nBonacciLikeList(list, n, numAdditionalElements) ==
    IF numAdditionalElements = 0 THEN list
    ELSE nBonacciLikeList(Append(list, sumOfPreviousNElements(list, Len(list), n)),
                          n, numAdditionalElements - 1)

\* The lists of the test 'special case' (the empty list is enumerated).
SpecialCases ==
    { <<1, 1, 2, 3, 6, 13, 25, 49>>,
      <<1, 1, 2, 3, 5, 10, 18, 33>> }

\* The lists of the test 'throws upon encountering non-positive elements'.
NonPositiveCases ==
    { <<0, 1, 1, 2, 3>>, <<1, -2, 1>>, <<5, 4, 3, 2, 1, 0>> }

FibInputs ==
    SeqsUpTo((0 - MaxFibNeg)..MaxFibVal, MaxFibLen)
    \cup {nBonacciLikeList(seed, Len(seed), k) :
             seed \in SeqsUpTo(1..MaxSeedVal, MaxSeedLen) \ {<<>>}, k \in 0..MaxAdditional}
    \cup SpecialCases \cup NonPositiveCases

\* Variant: zero passes the validation.
everyPositive_AllowsZero(list) == \A i \in 1..Len(list) : list[i] >= 0

\* arr.every((x) => x > 0n)
everyPositive(list) == \A i \in 1..Len(list) : list[i] > 0

\* SumSlice.empty(arr): new SumSlice(arr, 0, 0, 0n).  Every slice of a call is
\* taken from the same array, fibArr, which the record leaves out.
empty == [start |-> 0, end |-> 0, sum |-> 0]

\* get length(): this.end - this.start
length(slice) == slice.end - slice.start

\* The index is one that list has an element at.
inBounds(list, index) == index \in 0..(Len(list) - 1)

\* Variant: the element that leaves the slice on the left is not subtracted.
moveRight_KeepsLeft(list, slice) ==
    [start |-> slice.start + 1,
     end   |-> slice.end + 1,
     sum   |-> slice.sum + list[slice.end + 1]]

\* moveRight(): new SumSlice(arr, start + 1, end + 1, sum - arr[start]! + arr[end]!)
moveRight(list, slice) ==
    [start |-> slice.start + 1,
     end   |-> slice.end + 1,
     sum   |-> slice.sum - list[slice.start + 1] + list[slice.end + 1]]

\* Variant: the sum grows by the first element of the slice, not by the new one.
expandRight_AddsFirst(list, slice) ==
    [start |-> slice.start,
     end   |-> slice.end + 1,
     sum   |-> slice.sum + list[slice.start + 1]]

\* expandRight(): new SumSlice(arr, start, end + 1, sum + arr[end]!)
expandRight(list, slice) ==
    [start |-> slice.start,
     end   |-> slice.end + 1,
     sum   |-> slice.sum + list[slice.end + 1]]

\* Variant: a slice passes when its sum does not exceed the element.
filterSum_AtMost(ss, x) == SelectSeq(ss, LAMBDA slice : slice.sum <= x)

\* slices.filter((slice) => slice.sum === x)
filterSum(ss, x) == SelectSeq(ss, LAMBDA slice : slice.sum = x)

\* if (!arr.every((x) => x > 0n)) throw new Error(...)
FibThrow ==
    /\ fibPc = "validate"
    /\ ~everyPositive(fibArr)
    /\ fibPc' = "threw"
    /\ UNCHANGED <<fibArr, slices, expandingSlice, fibIndex, fibResult,
                   extractVars, subVars, sdfVars, splitVars>>

\* let slices = []; let expandingSlice = SumSlice.empty(arr); slices.push(expandingSlice);
FibSetup ==
    /\ fibPc = "validate"
    /\ everyPositive(fibArr)
    /\ expandingSlice' = empty
    /\ slices' = <<empty>>
    /\ fibIndex' = 0
    /\ fibPc' = "loop"
    /\ UNCHANGED <<fibArr, fibResult, extractVars, subVars, sdfVars, splitVars>>

\* One iteration of `for (const x of arr)`.  A failed assert and a read of
\* an index that arr has no element at (bigint arithmetic on undefined) both
\* end the call with an exception.
FibIterate ==
    /\ fibPc = "loop"
    /\ fibIndex < Len(fibArr)
    /\ LET x == fibArr[fibIndex + 1]
           kept == filterSum(slices, x)
           readsInBounds ==
               /\ \A i \in 1..Len(kept) :
                     inBounds(fibArr, kept[i].start) /\ inBounds(fibArr, kept[i].end)
               /\ inBounds(fibArr, expandingSlice.end)
       IN  IF Len(slices) > 2
           THEN /\ fibPc' = "assertFailed"
                /\ UNCHANGED <<slices, expandingSlice, fibIndex>>
           ELSE IF ~readsInBounds
           THEN /\ fibPc' = "typeError"
                /\ UNCHANGED <<slices, expandingSlice, fibIndex>>
           ELSE /\ expandingSlice' = expandRight(fibArr, expandingSlice)
                /\ slices' = Append([i \in 1..Len(kept) |-> moveRight(fibArr, kept[i])],
                                    expandRight(fibArr, expandingSlice))
                /\ fibIndex' = fibIndex + 1
                /\ UNCHANGED fibPc
    /\ UNCHANGED <<fibArr, fibResult, extractVars, subVars, sdfVars, splitVars>>

\* return slices[0]!.length;
FibReturn ==
    /\ fibPc = "loop"
    /\ fibIndex = Len(fibArr)
    /\ IF Len(slices) = 0
       THEN fibPc' = "typeError" /\ UNCHANGED fibResult
       ELSE fibPc' = "returned" /\ fibResult' = length(slices[1])
    /\ UNCHANGED <<fibArr, slices, expandingSlice, fibIndex,
                   extractVars, subVars, sdfVars, splitVars>>

FibNext == FibThrow \/ FibSetup \/ FibIterate \/ FibReturn

FibInit ==
    /\ fibArr \in FibInputs
    /\ slices = <<>>
    /\ expandingSlice = NoValue
    /\ fibIndex = 0
    /\ fibResult = NoValue
    /\ fibPc = "validate"
    /\ ExtractIdle /\ SubIdle /\ SdfIdle /\ SplitIdle

SpecFib == FibInit /\ [][FibNext]_vars

(***************************************************************************)
(* Claims about fibonacciOrder.                                            *)
(***************************************************************************)
\* isNBonacciLikeList(arr, n)  (fibonacci-order.test.ts): every element at
\* an index i >= n is the sum of the n elements before it.
isNBonacciLikeList(list, n) ==
    \A i \in 0..(Len(list) - 1) :
        i < n \/ sumOfPreviousNElements(list, i, n) = list[i + 1]

\* fibonacciOrderOracle(arr): the first n of 0, 1, 2, ... that fits.
fibonacciOrderOracle(list) ==
    CHOOSE n \in 0..Len(list) :
        /\ isNBonacciLikeList(list, n)
        /\ \A m \in 0..(n - 1) : ~isNBonacciLikeList(list, m)

FibDone == fibPc \in {"returned", "threw", "assertFailed", "typeError"}

\* C8: on a list of strictly positive integers the call returns the smallest
\* n for which the list is n-bonacci-like, the value of the oracle: 0 for the
\* empty list, 5 for [1,1,2,3,6,13,25,49] and 8 for [1,1,2,3,5,10,18,33].
C8_SmallestOrder ==
    (FibDone /\ \A i \in 1..Len(fibArr) : fibArr[i] >= 1) =>
        /\ fibPc = "returned"
        /\ fibResult = fibonacciOrderOracle(fibArr)
        /\ fibArr = <<>> => fibResult = 0
        /\ fibArr = <<1, 1, 2, 3, 6, 13, 25, 49>> => fibResult = 5
        /\ fibArr = <<1, 1, 2, 3, 5, 10, 18, 33>> => fibResult = 8

\* A call returned an order that is neither 0, 1 nor the length of its list.
C8_Witness ==
    /\ fibPc = "returned"
    /\ fibResult > 1
    /\ fibResult < Len(fibArr) - 1

\* C9: the call throws on every list that holds an element that is zero or
\* negative, and no slice exists at any point of such a call.
C9_ThrowsOnNonPositive ==
    (fibPc # "idle" /\ \E i \in 1..Len(fibArr) : fibArr[i] <= 0) =>
        /\ fibPc \in {"validate", "threw"}
        /\ slices = <<>>
        /\ expandingSlice = NoValue
        /\ fibIndex = 0

\* A call threw on a list whose only non-positive element is a zero in last
\* place.
C9_Witness ==
    /\ fibPc = "threw"
    /\ Len(fibArr) >= 3
    /\ fibArr[Len(fibArr)] = 0
    /\ \A i \in 1..(Len(fibArr) - 1) : fibArr[i] > 0

(***************************************************************************)
(* squareDifferenceFree  (typescript-challenges/code/square-difference-    *)
(* free.ts, in its class version and in its interface version)             *)
(***************************************************************************)
\* The generator is advanced until dest has passed this value.
MaxDest == 262

\* new SquareDistance(origin, sqrtDist)  /  { origin, sqrtDist }
SquareDistance(origin, sqrtDist) == [origin |-> origin, sqrtDist |-> sqrtDist]

\* get dest(): this.origin + this.sqrtDist ** 2n
destOf(distance) == distance.origin + distance.sqrtDist * distance.sqrtDist

\* Variant: the next distance skips a square root.
next_SkipsOne(distance) == SquareDistance(distance.origin, distance.sqrtDist + 2)

\* next(): new SquareDistance(this.origin, this.sqrtDist + 1n)
next(distance) == SquareDistance(distance.origin, distance.sqrtDist + 1)

\* if (!map.has(key)) map.set(key, []);  map.get(key)!.push(distance);
pushDistance(map, key, distance) ==
    IF key \in DOMAIN map
    THEN [map EXCEPT ![key] = Append(@, distance)]
    ELSE [k \in DOMAIN map \cup {key} |-> IF k = key THEN <<distance>> ELSE map[k]]

\* map.delete(key)
deleteKey(map, key) == [k \in DOMAIN map \ {key} |-> map[k]]

\* if (!destToDistances.has(dest)) { yield dest; ...: the generator hands dest to
\* the consumer and is suspended at the yield; the map is not touched yet.
SdfYield ==
    /\ sdfPc = "check"
    /\ dest <= MaxDest
    /\ dest \notin DOMAIN destToDistances
    /\ yielded' = Append(yielded, dest)
    /\ sdfPc' = "suspended"
    /\ UNCHANGED <<destToDistances, dest, distIndex, sdfVersion, extractVars, subVars, fibVars, splitVars>>

\* Variant: the first distance of a yielded value has square root 1.
SdfResume_StartsAtOne ==
    /\ sdfPc = "suspended"
    /\ destToDistances' =
           [k \in DOMAIN destToDistances \cup {dest} |->
               IF k = dest THEN <<SquareDistance(dest, 1)>> ELSE destToDistances[k]]
    /\ distIndex' = 0
    /\ sdfPc' = "distances"
    /\ UNCHANGED <<dest, yielded, sdfVersion, extractVars, subVars, fibVars, splitVars>>

\* The consumer calls next() again and the generator resumes after the yield:
\* const distance = new SquareDistance(dest, 0n); destToDistances.set(dest, [distance]);
\* A consumer that stops asking leaves the generator suspended for good.
SdfResume ==
    /\ sdfPc = "suspended"
    /\ destToDistances' =
           [k \in DOMAIN destToDistances \cup {dest} |->
               IF k = dest THEN <<SquareDistance(dest, 0)>> ELSE destToDistances[k]]
    /\ distIndex' = 0
    /\ sdfPc' = "distances"
    /\ UNCHANGED <<dest, yielded, sdfVersion, extractVars, subVars, fibVars, splitVars>>

\* destToDistances.has(dest): nothing is yielded for this dest.
SdfExclude ==
    /\ sdfPc = "check"
    /\ dest <= MaxDest
    /\ dest \in DOMAIN destToDistances
    /\ distIndex' = 0
    /\ sdfPc' = "distances"
    /\ UNCHANGED <<destToDistances, dest, yielded, sdfVersion, extractVars, subVars, fibVars, splitVars>>

\* Class version, one iteration of `for (const distance of destToDistances.get(dest)!)`:
\* assert(dest === distance.dest); nextDistance = distance.next(); push under nextDistance.dest.
SdfDistanceClass ==
    /\ sdfPc = "distances"
    /\ sdfVersion = "class"
    /\ distIndex < Len(destToDistances[dest])
    /\ LET distance == destToDistances[dest][distIndex + 1]
           nextDistance == next(distance)
           nextDest == destOf(nextDistance)
       IN  IF dest # destOf(distance)
           THEN sdfPc' = "assertFailed" /\ UNCHANGED <<destToDistances, distIndex>>
           ELSE /\ destToDistances' = pushDistance(destToDistances, nextDest, nextDistance)
                /\ distIndex' = distIndex + 1
                /\ UNCHANGED sdfPc
    /\ UNCHANGED <<dest, yielded, sdfVersion, extractVars, subVars, fibVars, splitVars>>

\* Interface version, one iteration of
\* `for (const { origin, sqrtDist } of destToDistance.get(dest)!)`:
\* assert(origin + sqrtDist ** 2n === dest); nextSqrtDist = sqrtDist + 1n;
\* nextDest = origin + nextSqrtDist ** 2n; push { origin, sqrtDist: nextSqrtDist }.
SdfDistanceInterface ==
    /\ sdfPc = "distances"
    /\ sdfVersion = "interface"
    /\ distIndex < Len(destToDistances[dest])
    /\ LET origin == destToDistances[dest][distIndex + 1].origin
           sqrtDist == destToDistances[dest][distIndex + 1].sqrtDist
           nextSqrtDist == sqrtDist + 1
           nextDest == origin + nextSqrtDist * nextSqrtDist
       IN  IF origin + sqrtDist * sqrtDist # dest
           THEN sdfPc' = "assertFailed" /\ UNCHANGED <<destToDistances, distIndex>>
           ELSE /\ destToDistances' =
                       pushDistance(destToDistances, nextDest,
                                    [origin |-> origin, sqrtDist |-> nextSqrtDist])
                /\ distIndex' = distIndex + 1
                /\ UNCHANGED sdfPc
    /\ UNCHANGED <<dest, yielded, sdfVersion, extractVars, subVars, fibVars, splitVars>>

\* assert(destToDistances.delete(dest)); dest++
SdfDelete ==
    /\ sdfPc = "distances"
    /\ distIndex = Len(destToDistances[dest])
    /\ IF dest \notin DOMAIN destToDistances
       THEN sdfPc' = "assertFailed" /\ UNCHANGED <<destToDistances, dest>>
       ELSE /\ destToDistances' = deleteKey(destToDistances, dest)
            /\ dest' = dest + 1
            /\ sdfPc' = "check"
    /\ UNCHANGED <<distIndex, yielded, sdfVersion, extractVars, subVars, fibVars, splitVars>>

SdfNext == SdfYield \/ SdfResume \/ SdfExclude \/ SdfDistanceClass \/ SdfDistanceInterface \/ SdfDelete

\* const destToDistances = new Map(); for (let dest = 0n; ; dest++)
SdfInit ==
    /\ destToDistances = <<>>
    /\ dest = 0
    /\ distIndex = 0
    /\ yielded = <<>>
    /\ sdfVersion \in {"class", "interface"}
    /\ sdfPc = "check"
    /\ ExtractIdle /\ SubIdle /\ FibIdle /\ SplitIdle

SpecSdf == SdfInit /\ [][SdfNext]_vars

(***************************************************************************)
(* Claims about squareDifferenceFree.                                      *)
(***************************************************************************)
\* The perfect squares that a distance between two values up to MaxDest + 1 can be.
Squares == {r * r : r \in 0..(MaxDest + 1)}

\* n is not a perfect square's distance away from any element of prev.
SquareFree(n, prev) ==
    \A j \in 1..Len(prev) :
        (IF n >= prev[j] THEN n - prev[j] ELSE prev[j] - n) \notin Squares

\* The head of OEIS A030193 that the test 'sequence head matches' lists.
A030193Head ==
    <<0, 2, 5, 7, 10, 12, 15, 17, 20, 22, 34, 39, 44, 52, 57, 62, 65, 67, 72,
      85, 95, 109, 119, 124, 127, 130, 132, 137, 142, 147, 150, 170, 177, 180,
      182, 187, 192, 197, 204, 210, 215, 238, 243, 249, 255, 257, 260, 262>>

\* C10: the value yielded last is the smallest natural number that is not a
\* perfect square's distance away from any value yielded before it (every
\* yielded value is the last one in the state that follows its yield), no two
\* yielded values differ by a perfect square, and the yielded values agree
\* with the head of A030193, which starts 0, 2, 5, 7, 10, 12, 15, 17, 20, 22.
C10_LexicographicallyEarliest ==
    /\ yielded # <<>> =>
          LET last == yielded[Len(yielded)]
              prev == SubSeq(yielded, 1, Len(yielded) - 1)
          IN  /\ SquareFree(last, prev)
              /\ \A m \in 0..(last - 1) : ~SquareFree(m, prev)
    /\ \A i, j \in 1..Len(yielded) :
          i < j => (yielded[j] > yielded[i] /\ (yielded[j] - yielded[i]) \notin Squares)
    /\ \A k \in 1..Len(yielded) : k <= Len(A030193Head) => yielded[k] = A030193Head[k]
    /\ SubSeq(A030193Head, 1, 10) = <<0, 2, 5, 7, 10, 12, 15, 17, 20, 22>>

\* The generator has yielded the whole listed head of A030193.
C10_Witness ==
    /\ Len(yielded) >= Len(A030193Head)
    /\ yielded[Len(A030193Head)] = 262

(***************************************************************************)
(* splitOnNewChars  (typescript-challenges/code/split-on-new-chars.ts)     *)
(***************************************************************************)
\* Longest enumerated input string.
MaxStrLen == 5
\* Characters of the enumerated input strings.
SplitChars == {"a", "b", "c"}

\* The example of the problem statement: 'aababaccabac'.
SplitExamples ==
    { <<"a", "a", "b", "a", "b", "a", "c", "c", "a", "b", "a", "c">> }

SplitInputs == SeqsUpTo(SplitChars, MaxStrLen) \cup SplitExamples

\* arr[arr.length - 1]! += char  (a list without elements has no last
\* element to extend and keeps its elements)
appendToLast(list, char) ==
    IF list = <<>> THEN list
    ELSE [list EXCEPT ![Len(list)] = Append(@, char)]

\* Variant: the character is dropped right after the new substring is pushed.
SplitNewChar_DropsChar ==
    /\ splitPc = "loop"
    /\ strIndex < Len(str)
    /\ str[strIndex + 1] \notin encounteredChars
    /\ encounteredChars' = encounteredChars \cup {str[strIndex + 1]}
    /\ splitArr' = Append(splitArr, <<>>)
    /\ strIndex' = strIndex + 1
    /\ UNCHANGED <<str, splitPc, extractVars, subVars, fibVars, sdfVars>>

\* if (!encounteredChars.has(char)) { encounteredChars.add(char); arr.push(''); }
\* arr[arr.length - 1]! += char;
SplitNewChar ==
    /\ splitPc = "loop"
    /\ strIndex < Len(str)
    /\ str[strIndex + 1] \notin encounteredChars
    /\ encounteredChars' = encounteredChars \cup {str[strIndex + 1]}
    /\ splitArr' = appendToLast(Append(splitArr, <<>>), str[strIndex + 1])
    /\ strIndex' = strIndex + 1
    /\ UNCHANGED <<str, splitPc, extractVars, subVars, fibVars, sdfVars>>

\* Variant: every character but the first of a kind starts a substring too.
SplitSeenChar_Splits ==
    /\ splitPc = "loop"
    /\ strIndex < Len(str)
    /\ str[strIndex + 1] \in encounteredChars
    /\ splitArr' = Append(splitArr, <<str[strIndex + 1]>>)
    /\ strIndex' = strIndex + 1
    /\ UNCHANGED <<str, encounteredChars, splitPc, extractVars, subVars, fibVars, sdfVars>>

\* encounteredChars.has(char):  arr[arr.length - 1]! += char;
SplitSeenChar ==
    /\ splitPc = "loop"
    /\ strIndex < Len(str)
    /\ str[strIndex + 1] \in encounteredChars
    /\ splitArr' = appendToLast(splitArr, str[strIndex + 1])
    /\ strIndex' = strIndex + 1
    /\ UNCHANGED <<str, encounteredChars, splitPc, extractVars, subVars, fibVars, sdfVars>>

\* return arr;
SplitReturn ==
    /\ splitPc = "loop"
    /\ strIndex = Len(str)
    /\ splitPc' = "returned"
    /\ UNCHANGED <<str, strIndex, splitArr, encounteredChars,
                   extractVars, subVars, fibVars, sdfVars>>

SplitNext == SplitNewChar \/ SplitSeenChar \/ SplitReturn

\* const arr: string[] = []; const encounteredChars = new Set();
SplitInit ==
    /\ str \in SplitInputs
    /\ strIndex = 0
    /\ splitArr = <<>>
    /\ encounteredChars = {}
    /\ splitPc = "loop"
    /\ ExtractIdle /\ SubIdle /\ FibIdle /\ SdfIdle

SpecSplit == SplitInit /\ [][SplitNext]_vars

(***************************************************************************)
(* Claims about splitOnNewChars.                                           *)
(***************************************************************************)
\* indicesOfSplit(arr)  (split-on-new-chars.test.ts): the index at which
\* each substring begins in the joined string.
RECURSIVE indicesOfSplit(_, _)
indicesOfSplit(list, currIndex) ==
    IF list = <<>> THEN <<>>
    ELSE <<currIndex>> \o indicesOfSplit(Tail(list), currIndex + Len(Head(list)))

\* str.indexOf(char): the first JavaScript index that holds char.
indexOf(s, char) ==
    CHOOSE i \in 0..(Len(s) - 1) :
        s[i + 1] = char /\ \A j \in 0..(i - 1) : s[j + 1] # char

\* uniqueEverseen(str): the characters of str, each at its first occurrence only.
RECURSIVE uniqueEverseen(_, _)
uniqueEverseen(s, seen) ==
    IF s = <<>> THEN <<>>
    ELSE IF Head(s) \in seen THEN uniqueEverseen(Tail(s), seen)
    ELSE <<Head(s)>> \o uniqueEverseen(Tail(s), seen \cup {Head(s)})

\* charFirstOccurrences(str)  (split-on-new-chars.test.ts)
charFirstOccurrences(s) ==
    LET unique == uniqueEverseen(s, {})
    IN  [k \in 1..Len(unique) |-> indexOf(s, unique[k])]

\* C11: the returned substrings, concatenated in order, are the input string.
C11_JoinGivesInput ==
    splitPc = "returned" => Concat(splitArr) = str

\* A call returned more than one substring, one of them longer than a character.
C11_Witness ==
    /\ splitPc = "returned"
    /\ Len(splitArr) >= 2
    /\ Len(str) > Len(splitArr)

\* C12: the positions at which the returned substrings begin are the first
\* occurrences of the distinct characters of the input, in order: a substring
\* begins at a position exactly if the character there did not occur earlier.
C12_SplitsAtFirstOccurrences ==
    splitPc = "returned" =>
        LET begins == indicesOfSplit(splitArr, 0)
        IN  /\ begins = charFirstOccurrences(str)
            /\ \A p \in 0..(Len(str) - 1) :
                  (\E k \in 1..Len(begins) : begins[k] = p)
                      <=> (\A q \in 0..(p - 1) : str[q + 1] # str[p + 1])

\* A call returned on a string in which a character occurs again after a
\* different character started a new substring.
C12_Witness ==
    /\ splitPc = "returned"
    /\ Len(splitArr) >= 2
    /\ \E p \in 2..Len(str) : \E q \in 1..(p - 2) : str[q] = str[p] /\ str[p - 1] # str[p]

(***************************************************************************)
(* Claims about the steps of extractStrings.                               *)
(***************************************************************************)
\* The step is one iteration of the loop of extractStrings.
ExtractCharStep ==
    /\ extractPc = "loop"
    /\ charIndex < Len(text)
    /\ charIndex' = charIndex + 1

\* The character that the next iteration of the loop processes.
currentChar == text[charIndex + 1]

\* C13: in state outside a single quote opens a literal (state inside with
\* an empty accumulator) and every other character, the double quote
\* included, leaves the state outside; the output is unchanged either way.
C13_SingleQuoteOpensLiteral ==
    [][(ExtractCharStep /\ state.type = "outside") =>
          /\ extractedStrings' = extractedStrings
          /\ IF currentChar = SingleQuote
             THEN state' = [type |-> "inside", parsed |-> <<>>]
             ELSE state' = [type |-> "outside"]]_vars

\* C14: in state inside a single quote moves the state to transition with
\* the accumulator unchanged, every other character is appended to the
\* accumulator and the state stays inside; the output is unchanged either way.
C14_InsideStep ==
    [][(ExtractCharStep /\ state.type = "inside") =>
          /\ extractedStrings' = extractedStrings
          /\ IF currentChar = SingleQuote
             THEN state' = [type |-> "transition", parsed |-> state.parsed]
             ELSE state' = [type |-> "inside",
                            parsed |-> Append(state.parsed, currentChar)]]_vars

\* C15: in state transition a single quote appends exactly one single quote,
\* the character just read, to the accumulator, the state returns to inside
\* and nothing is emitted.
C15_DoubledQuoteDecodesToOne ==
    [][(ExtractCharStep /\ state.type = "transition" /\ currentChar = SingleQuote) =>
          /\ extractedStrings' = extractedStrings
          /\ state' = [type |-> "inside",
                       parsed |-> Append(state.parsed, currentChar)]]_vars

\* C16: in state transition a character that is not a single quote closes
\* the literal: the accumulated string is appended to the output, and the
\* state after the step is the one the outside rule gives for the character,
\* which is outside for every character that is not a single quote.
C16_CloseThenOutsideRule ==
    [][(ExtractCharStep /\ state.type = "transition" /\ currentChar # SingleQuote) =>
          /\ extractedStrings' = Append(extractedStrings, state.parsed)
          /\ state' = [type |-> "outside"]]_vars

\* The value that stands for a failed scan.
ScanFailure == "UnmatchedDelimiter"

\* A scan of the characters i + 1 .. Len(chars) without a sentinel, with the
\* end-of-input rule: outside returns the output, a pending delimiter closes
\* its literal, an open literal fails.
RECURSIVE scanWithEndRule(_, _, _, _)
scanWithEndRule(chars, i, st, out) ==
    IF i = Len(chars)
    THEN CASE st.type = "outside" -> out
           [] st.type = "transition" -> Append(out, st.parsed)
           [] OTHER -> ScanFailure
    ELSE LET char == chars[i + 1]
             delimiter == isSingleQuote(char)
         IN  CASE st.type = "outside" /\ delimiter ->
                    scanWithEndRule(chars, i + 1, [type |-> "inside", parsed |-> <<>>], out)
               [] st.type = "outside" /\ ~delimiter ->
                    scanWithEndRule(chars, i + 1, st, out)
               [] st.type = "inside" /\ delimiter ->
                    scanWithEndRule(chars, i + 1,
                                    [type |-> "transition", parsed |-> st.parsed], out)
               [] st.type = "inside" /\ ~delimiter ->
                    scanWithEndRule(chars, i + 1,
                                    [type |-> "inside", parsed |-> Append(st.parsed, char)],
                                    out)
               [] st.type = "transition" /\ delimiter ->
                    scanWithEndRule(chars, i + 1,
                                    [type |-> "inside",
                                     parsed |-> Append(st.parsed, SingleQuote)], out)
               [] OTHER ->
                    scanWithEndRule(chars, i + 1, [type |-> "outside"],
                                    Append(out, st.parsed))

\* C17: the call throws exactly if the scan of the text without the sentinel
\* fails under the end-of-input rule, it returns the list of that scan
\* otherwise (so no returned string holds a character of the sentinel), and
\* the sentinel is not taken for a delimiter.
C17_SentinelNeverChangesResult ==
    ExtractDone =>
        LET scanned == scanWithEndRule(inputText, 0, [type |-> "outside"], <<>>)
        IN  /\ extractPc = "threw" <=> scanned = ScanFailure
            /\ extractPc = "returned" => extractResult = scanned
            /\ ~isSingleQuote(Sentinel)

\* A call returned strings from a text whose last character is a delimiter,
\* the case that the sentinel is there to resolve, and that holds the
\* character of the sentinel inside a literal.
C17_Witness ==
    /\ extractPc = "returned"
    /\ extractResult # <<>>
    /\ isSingleQuote(inputText[Len(inputText)])
    /\ \E k \in 1..Len(extractResult) :
          \E j \in 1..Len(extractResult[k]) : extractResult[k][j] = Sentinel

\* C18: the call throws exactly if the state after the last character, the
\* sentinel included, is not outside, and a call that throws delivers
\* nothing, whatever strings it had completed.
C18_FailsIffNotOutside ==
    ExtractDone =>
        /\ extractPc = "threw" <=> state.type # "outside"
        /\ extractPc = "threw" => extractResult = NoValue
        /\ extractPc = "returned" => extractResult = extractedStrings

\* A call threw after it had completed a literal.
C18_Witness ==
    /\ extractPc = "threw"
    /\ extractedStrings # <<>>
    /\ extractResult = NoValue

\* C19: a step leaves the output as it is or appends one string to its end;
\* it appends only when it leaves state transition for state outside, and
\* the string is the accumulator of that state.
C19_OutputInClosingOrder ==
    [][\/ extractedStrings' = extractedStrings
       \/ /\ ExtractCharStep
          /\ state.type = "transition"
          /\ state'.type = "outside"
          /\ extractedStrings' = Append(extractedStrings, state.parsed)]_vars

\* Two different literals have closed one after the other.
C19_Witness ==
    /\ Len(extractedStrings) >= 2
    /\ extractedStrings[1] # extractedStrings[2]

\* C20: on a list of strictly positive integers slices holds one or two
\* slices at the start of every iteration and when the loop has ended, at
\* most one of them passes the filter of the iteration, and the assertion
\* never fails.
C20_AtMostTwoSlices ==
    (fibPc # "idle" /\ \A i \in 1..Len(fibArr) : fibArr[i] >= 1) =>
        /\ fibPc # "assertFailed"
        /\ fibPc \in {"loop", "returned"} =>
              /\ Len(slices) \in 1..2
              /\ fibIndex < Len(fibArr) =>
                    Cardinality({k \in 1..Len(slices) :
                                    slices[k].sum = fibArr[fibIndex + 1]}) <= 1

\* The loop is in the middle of a list with two slices, one of which passes
\* the filter of the iteration to come.
C20_Witness ==
    /\ fibPc = "loop"
    /\ fibIndex >= 2
    /\ fibIndex < Len(fibArr)
    /\ Len(slices) = 2
    /\ \E k \in 1..Len(slices) : slices[k].sum = fibArr[fibIndex + 1]

(***************************************************************************)
(* Claims about the internals of squareDifferenceFree, extractStrings,     *)
(* subsequence_indices and fibonacciOrder.                                 *)
(***************************************************************************)
\* C21: in both versions no assertion fails: every distance that the map
\* holds under a key has origin + sqrtDist^2 equal to that key, so also the
\* ones read under dest; while the distances of dest are processed the map
\* has an entry for dest, so delete(dest) returns true; and no key of the map
\* is smaller than dest, so after the iteration every key is greater than
\* the dest of that iteration.
C21_AssertionsHold ==
    sdfPc # "idle" =>
        /\ sdfPc # "assertFailed"
        /\ \A k \in DOMAIN destToDistances :
              \A i \in 1..Len(destToDistances[k]) :
                 LET distance == destToDistances[k][i]
                 IN  distance.origin + distance.sqrtDist * distance.sqrtDist = k
        /\ sdfPc = "distances" => dest \in DOMAIN destToDistances
        /\ \A k \in DOMAIN destToDistances : k >= dest

\* The inner loop has read the first of several distances that meet at one
\* dest, from different origins, and dest is far into the run.
C21_Witness ==
    /\ sdfPc = "distances"
    /\ dest >= 11
    /\ Len(destToDistances[dest]) >= 2
    /\ distIndex >= 1
    /\ destToDistances[dest][1].origin # destToDistances[dest][2].origin

\* C22: after every prefix of the input the state is inside exactly if the
\* prefix holds an odd number of single quotes, outside or transition
\* exactly if it holds an even number, and never anything else.
C22_ParityInvariant ==
    extractPc \in {"loop", "returned", "threw"} =>
        /\ state.type \in {"outside", "inside", "transition"}
        /\ state.type = "inside"
              <=> CountChar(SubSeq(text, 1, charIndex), SingleQuote) % 2 = 1

\* The sorted list of a finite set of numbers.
RECURSIVE SortedSeq(_)
SortedSeq(set) ==
    IF set = {} THEN <<>>
    ELSE LET least == CHOOSE x \in set : \A y \in set : x <= y
         IN  <<least>> \o SortedSeq(set \ {least})

\* The JavaScript index lists, strictly ascending, at which list holds s.
Embeddings(s, list) ==
    {[j \in 1..Len(s) |-> SortedSeq(keep)[j] - 1] :
        keep \in {k \in SUBSET (1..Len(list)) : SelectAt(list, k, 1) = s}}

\* a comes before b, or is b, in lexicographic order (lists of one length).
LexLeq(a, b) ==
    \/ a = b
    \/ \E j \in 1..Len(a) :
          /\ a[j] < b[j]
          /\ \A i \in 1..(j - 1) : a[i] = b[i]

\* C23: a returned list is the leftmost embedding: its j-th index is the
\* first index after the one before it (the first index of all for j = 0)
\* at which arr holds sub[j], no valid index list comes before it in
\* lexicographic order, and for an empty sub the call returns the empty list.
C23_LeftmostEmbedding ==
    /\ subPc = "returned" =>
          /\ \A j \in 1..Len(indices) :
                LET after == IF j = 1 THEN 0 ELSE indices[j - 1] + 1
                IN  /\ indices[j] >= after
                    /\ \A k \in after..(indices[j] - 1) : arr[k + 1] # sub[j]
          /\ indices \in Embeddings(sub, arr)
          /\ \A e \in Embeddings(sub, arr) : LexLeq(indices, e)
    /\ (subPc \in {"returned", "null"} /\ sub = <<>>) =>
          (subPc = "returned" /\ indices = <<>>)

\* A call returned a list although sub has another embedding in arr, one
\* that starts later.
C23_Witness ==
    /\ subPc = "returned"
    /\ Len(indices) >= 2
    /\ \E e \in Embeddings(sub, arr) : e[1] > indices[1]

\* The slice meets the preconditions of the SumSlice constructor on list.
MeetsPreconditions(list, slice) ==
    /\ 0 <= slice.start
    /\ slice.start <= slice.end
    /\ slice.end <= Len(list)
    /\ slice.sum = SumRange(list, slice.start, slice.end)

\* C24: on a list of strictly positive integers every slice that exists is
\* in bounds (0 <= start <= end <= arr.length) and carries the sum of its
\* elements, and no call of moveRight or expandRight reads an index that
\* arr has no element at.
C24_SlicesMeetPreconditions ==
    (fibPc # "idle" /\ \A i \in 1..Len(fibArr) : fibArr[i] >= 1) =>
        /\ fibPc # "typeError"
        /\ \A k \in 1..Len(slices) : MeetsPreconditions(fibArr, slices[k])
        /\ fibPc \in {"loop", "returned"} => MeetsPreconditions(fibArr, expandingSlice)

\* The loop holds a slice that was moved right at least twice and spans
\* several elements, next to the expanding slice.
C24_Witness ==
    /\ fibPc = "loop"
    /\ Len(slices) = 2
    /\ slices[1].start >= 2
    /\ slices[1].end - slices[1].start >= 2
    /\ slices[2] = expandingSlice

====
